---- MODULE Spec2Model ----
(***************************************************************************)
(* Model of google_ads_reports/retry.py: the retry_on_api_error decorator  *)
(* (the retry loop of wrapper) and the classifier _is_retryable_error.     *)
(*                                                                         *)
(* Durations are exact rationals <<numerator, denominator>>.  Strings that *)
(* the classifier inspects are sequences of one-character strings, so that *)
(* upper(), lower() and the substring test `in` are computed.              *)
(***************************************************************************)
EXTENDS Integers, Sequences, FiniteSets, TLC

VARIABLES
    max_attempts,     \* decorator argument (line 16)
    base_delay,       \* decorator argument (line 17)
    max_delay,        \* decorator argument (line 18)
    backoff_factor,   \* decorator argument (line 19)
    jitter,           \* decorator argument (line 20)
    pc,               \* per call: position of wrapper
    attempt,          \* per call: loop variable of line 40
    last_exception,   \* per call: local of lines 38, 45
    outcome,          \* per call: what wrapper returned or raised
    trace,            \* per call: func invocations and time.sleep calls, in order
    log,              \* per call: logging.warning / logging.error calls, in order
    events,           \* per call: the order of invocations, log calls, sleeps
                      \* and the final return or raise
    callers,          \* the threads that call wrapper
    cls_error,        \* argument of a direct call of _is_retryable_error
    cls_result,       \* what that call returned, <<>> before it returns
    schedule          \* delays computed by lines 61-65 for attempt 0, 1, ...

config == <<max_attempts, base_delay, max_delay, backoff_factor, jitter>>
vars == <<max_attempts, base_delay, max_delay, backoff_factor, jitter,
          pc, attempt, last_exception, outcome, trace, log, events, callers,
          cls_error, cls_result, schedule>>
calls == <<pc, attempt, last_exception, outcome, trace, log, events>>
probes == <<cls_error, cls_result, schedule, callers>>

-----------------------------------------------------------------------------
(* Bounds of the model.                                                    *)

\* Largest max_attempts a decorator is configured with.
MaxAttempts == 3
\* Bits of the random source: random.random() returns k / 2^RandBits.
RandBits == 2

\* The threads that may call wrapper, one call each.
Calls == { "t1", "t2" }

-----------------------------------------------------------------------------
(* Exact rational arithmetic for the float expressions of lines 61 and 65. *)

RECURSIVE Gcd(_, _)
Gcd(a, b) == IF b = 0 THEN a ELSE Gcd(b, a % b)

Abs(n) == IF n < 0 THEN -n ELSE n

\* n/d in lowest terms with a positive denominator.
Rat(n, d) ==
    LET g == Gcd(Abs(n), Abs(d))
        s == IF d < 0 THEN -1 ELSE 1
    IN  <<(s * n) \div g, (s * d) \div g>>

Zero == <<0, 1>>
Half == <<1, 2>>
One == <<1, 1>>

RMul(x, y) == Rat(x[1] * y[1], x[2] * y[2])
RAdd(x, y) == Rat(x[1] * y[2] + y[1] * x[2], x[2] * y[2])
RLe(x, y) == x[1] * y[2] <= y[1] * x[2]
RLt(x, y) == x[1] * y[2] < y[1] * x[2]

\* Python's min(x, y): the first argument unless the second is smaller.
RMin(x, y) == IF RLt(y, x) THEN y ELSE x
RMax(x, y) == IF RLt(x, y) THEN y ELSE x

\* x ** k for an int k >= 0.
RECURSIVE RPow(_, _)
RPow(x, k) == IF k = 0 THEN One ELSE RMul(x, RPow(x, k - 1))

RECURSIVE Pow2(_)
Pow2(k) == IF k = 0 THEN 1 ELSE 2 * Pow2(k - 1)

-----------------------------------------------------------------------------
(* Strings.                                                                *)

Lowercase ==
    <<"a","b","c","d","e","f","g","h","i","j","k","l","m","n","o","p","q","r","s","t","u","v","w","x","y","z">>
Uppercase ==
    <<"A","B","C","D","E","F","G","H","I","J","K","L","M","N","O","P","Q","R","S","T","U","V","W","X","Y","Z">>

Letters(alphabet) == { alphabet[i] : i \in 1..Len(alphabet) }
CharIndex(alphabet, ch) == CHOOSE i \in 1..Len(alphabet) : alphabet[i] = ch
UpperOf == [ch \in Letters(Lowercase) |-> Uppercase[CharIndex(Lowercase, ch)]]
LowerOf == [ch \in Letters(Uppercase) |-> Lowercase[CharIndex(Uppercase, ch)]]

\* str.upper() and str.lower() on ASCII text.
UpperChar(ch) == IF ch \in DOMAIN UpperOf THEN UpperOf[ch] ELSE ch
LowerChar(ch) == IF ch \in DOMAIN LowerOf THEN LowerOf[ch] ELSE ch
Upper(s) == [i \in 1..Len(s) |-> UpperChar(s[i])]
Lower(s) == [i \in 1..Len(s) |-> LowerChar(s[i])]

\* Python's `needle in hay` on strings.
Contains(hay, needle) ==
    \E i \in 1..(Len(hay) - Len(needle) + 1) :
        SubSeq(hay, i, i + Len(needle) - 1) = needle

-----------------------------------------------------------------------------
(* Errors that func may raise.  A GoogleAdsException has kind "ads"; its   *)
(* has_error / has_error_code fields say whether error and                 *)
(* error.error_code exist, error_code is str(error.error.error_code) and   *)
(* message is str(error).                                                  *)

None == [kind |-> "None"]

ErrRateExceeded ==
    [ kind |-> "ads", has_error |-> TRUE, has_error_code |-> TRUE,
      error_code |-> <<"R","A","T","E","_","E","X","C","E","E","D","E","D">>,
      message |-> <<"T","o","o"," ","m","a","n","y"," ","r","e","q","u","e","s","t","s">> ]
ErrUnavailable ==
    [ kind |-> "ads", has_error |-> FALSE, has_error_code |-> FALSE,
      error_code |-> <<>>,
      message |-> <<"S","e","r","v","i","c","e"," ","U","n","a","v","a","i","l","a","b","l","e">> ]
ErrInvalidArgument ==
    [ kind |-> "ads", has_error |-> TRUE, has_error_code |-> TRUE,
      error_code |-> <<"I","N","V","A","L","I","D","_","A","R","G","U","M","E","N","T">>,
      message |-> <<"B","a","d"," ","r","e","q","u","e","s","t">> ]
ErrCodeInMessage ==
    [ kind |-> "ads", has_error |-> FALSE, has_error_code |-> FALSE,
      error_code |-> <<>>,
      message |-> <<"R","A","T","E","_","E","X","C","E","E","D","E","D">> ]

\* The GoogleAdsExceptions that func raises in a call of wrapper.
AdsErrors ==
    { ErrRateExceeded, ErrUnavailable, ErrInvalidArgument, ErrCodeInMessage }

\* Texts of str(error.error.error_code) and of str(error) for direct calls
\* of _is_retryable_error.
CodeSamples ==
    { <<"R","A","T","E","_","E","X","C","E","E","D","E","D">>,
      <<"I","N","T","E","R","N","A","L","_","E","R","R","O","R">>,
      <<"Q","U","O","T","A","_","E","R","R","O","R">>,
      <<"C","O","N","C","U","R","R","E","N","T","_","M","O","D","I","F","I","C","A","T","I","O","N">>,
      <<"P","A","R","T","I","A","L","_","F","A","I","L","U","R","E","_","E","R","R","O","R">>,
      <<"r","a","t","e","_","e","x","c","e","e","d","e","d">>,
      <<"Q","u","o","t","a","E","r","r","o","r",".","Q","u","o","t","a","_","E","r","r","o","r">>,
      <<"R","A","T","E"," ","E","X","C","E","E","D","E","D">>,
      <<"R","A","T","E","_","E","X","C","E","E","D","E">>,
      <<"I","N","V","A","L","I","D","_","A","R","G","U","M","E","N","T">>,
      <<"t","i","m","e","o","u","t">>,
      <<>> }
MessageSamples ==
    { <<"T","o","o"," ","m","a","n","y"," ","r","e","q","u","e","s","t","s">>,
      <<"I","n","t","e","r","n","a","l"," ","e","r","r","o","r"," ","e","n","c","o","u","n","t","e","r","e","d">>,
      <<"R","a","t","e"," ","e","x","c","e","e","d","e","d">>,
      <<"Q","U","O","T","A"," ","E","X","C","E","E","D","E","D"," ","f","o","r"," ","p","r","o","j","e","c","t">>,
      <<"R","e","q","u","e","s","t"," ","T","i","m","e","o","u","t">>,
      <<"t","e","m","p","o","r","a","r","y"," ","f","a","i","l","u","r","e">>,
      <<"S","e","r","v","i","c","e"," ","U","n","a","v","a","i","l","a","b","l","e">>,
      <<"R","A","T","E","_","E","X","C","E","E","D","E","D">>,
      <<"Q","u","o","t","a"," ","e","x","c","e","e","d","e">>,
      <<"t","i","m","e"," ","o","u","t">>,
      <<"B","a","d"," ","r","e","q","u","e","s","t">>,
      <<>> }

\* A GoogleAdsException with or without the attributes error and
\* error.error_code.
ClassifyInputs ==
    { [ kind |-> "ads", has_error |-> TRUE, has_error_code |-> TRUE,
        error_code |-> c, message |-> m ] :
          c \in CodeSamples, m \in MessageSamples }
    \cup
    { [ kind |-> "ads", has_error |-> h, has_error_code |-> FALSE,
        error_code |-> <<>>, message |-> m ] :
          h \in BOOLEAN, m \in MessageSamples }

\* Errors that are no GoogleAdsException: one Exception subclass, and one
\* BaseException that is not an Exception.
ValueError == [kind |-> "other", name |-> "ValueError", is_exception |-> TRUE]
KeyboardInterrupt ==
    [kind |-> "other", name |-> "KeyboardInterrupt", is_exception |-> FALSE]
OtherErrors == { ValueError, KeyboardInterrupt }

\* Values that func may return.
Results == { "rows", "empty" }

\* func.__name__
FuncName == "get_report"

-----------------------------------------------------------------------------
(* _is_retryable_error (lines 91-130).                                     *)

retryable_error_codes ==
    { <<"I","N","T","E","R","N","A","L","_","E","R","R","O","R">>,
      <<"Q","U","O","T","A","_","E","R","R","O","R">>,
      <<"R","A","T","E","_","E","X","C","E","E","D","E","D">>,
      <<"C","O","N","C","U","R","R","E","N","T","_","M","O","D","I","F","I","C","A","T","I","O","N">>,
      <<"P","A","R","T","I","A","L","_","F","A","I","L","U","R","E","_","E","R","R","O","R">> }
retryable_messages ==
    { <<"i","n","t","e","r","n","a","l"," ","e","r","r","o","r">>,
      <<"r","a","t","e"," ","e","x","c","e","e","d","e","d">>,
      <<"q","u","o","t","a"," ","e","x","c","e","e","d","e","d">>,
      <<"t","i","m","e","o","u","t">>,
      <<"t","e","m","p","o","r","a","r","y"," ","f","a","i","l","u","r","e">>,
      <<"s","e","r","v","i","c","e"," ","u","n","a","v","a","i","l","a","b","l","e">> }

\* Lines 120-123 with the .upper() of line 122 left out.
CodeMatchesNoUpper(error) ==
    /\ error.has_error
    /\ error.has_error_code
    /\ \E code \in retryable_error_codes : Contains(error.error_code, code)

\* Lines 120-123: the check of the error code.
CodeMatches(error) ==
    /\ error.has_error
    /\ error.has_error_code
    /\ LET error_code == error.error_code
       IN  \E code \in retryable_error_codes : Contains(Upper(error_code), code)

\* Lines 126-128: the check of the error message.
MessageMatches(error) ==
    LET error_message == Lower(error.message)
    IN  \E msg \in retryable_messages : Contains(error_message, msg)

\* Lines 119-130 with a default of True in line 130.
DefaultAllow(error) ==
    IF CodeMatches(error) THEN TRUE
    ELSE IF MessageMatches(error) THEN TRUE
    ELSE TRUE

\* Lines 119-130 giving up on an error without the code attributes
\* instead of going on to the message check.
NoCodeIsFatal(error) ==
    IF ~(error.has_error /\ error.has_error_code) THEN FALSE
    ELSE IF CodeMatches(error) THEN TRUE
    ELSE IF MessageMatches(error) THEN TRUE
    ELSE FALSE

\* Lines 119-130: True on a code match, else True on a message match, else
\* False.
_is_retryable_error(error) ==
    IF CodeMatches(error) THEN TRUE
    ELSE IF MessageMatches(error) THEN TRUE
    ELSE FALSE

-----------------------------------------------------------------------------
(* Arguments of retry_on_api_error (lines 15-21).  The decorator checks    *)
(* none of them, so values outside the documented ranges are included.     *)

Two == <<2, 1>>
Three == <<3, 1>>
Thirty == <<30, 1>>

MaxAttemptsChoices == 0..MaxAttempts
BaseDelays == { One, Two }
MaxDelays == { One, Three, Thirty }
BackoffFactors == { Half, One, Two }

-----------------------------------------------------------------------------
(* The pieces of wrapper (lines 37-85).                                    *)

\* Line 40 with the range one short.
InRangeShort(i) == i < max_attempts - 1

\* Line 40: `for attempt in range(max_attempts)` yields index i.
InRange(i) == i < max_attempts

\* Line 57 breaking one attempt early.
LastAttemptEarly(i) == i = max_attempts - 2

\* Line 57 with the comparison off by one.
LastAttemptOffByOne(i) == i = max_attempts

\* Line 57: `attempt == max_attempts - 1`.
LastAttempt(i) == i = max_attempts - 1

\* Line 61 with max() in place of min().
DelayMax(i) == RMax(RMul(base_delay, RPow(backoff_factor, i)), max_delay)

\* Line 61 with the exponent one too large.
DelayNextExponent(i) ==
    RMin(RMul(base_delay, RPow(backoff_factor, i + 1)), max_delay)

\* Line 61: min(base_delay * (backoff_factor ** attempt), max_delay).
Delay(i) == RMin(RMul(base_delay, RPow(backoff_factor, i)), max_delay)

\* The values random.random() may return: k / 2^RandBits, k = 0 .. 2^RandBits - 1.
RandomDraws == 0..(Pow2(RandBits) - 1)

\* Line 65 with the factor 0.5 + random.random().
JitterFactorWide(k) == RAdd(Half, Rat(k, Pow2(RandBits)))

\* Line 65: 0.5 + random.random() * 0.5 in floating point with RandBits bits
\* of precision.  The product is exact; the exact sum is
\* (2^RandBits + k) / 2^(RandBits+1), and the floats of [0.5, 1] are the
\* multiples m / 2^RandBits, so an odd numerator is a tie and rounds to the
\* even m.
JitterFactor(k) ==
    LET n == Pow2(RandBits) + k
        lo == n \div 2
        m == IF n % 2 = 0 THEN lo
             ELSE IF lo % 2 = 0 THEN lo ELSE lo + 1
    IN  Rat(m, Pow2(RandBits))

\* Line 65: delay * (0.5 + random.random() * 0.5).
Jittered(delay, k) == RMul(delay, JitterFactor(k))

\* Line 45 keeping the first error once one is stored.
LastExceptionKeepFirst(previous, e) == IF previous = None THEN e ELSE previous

\* Line 45: last_exception = e.
LastException(previous, e) == e

\* Lines 61-65: the delay slept after the failure of attempt i, where k is
\* the draw of random.random() (read only when jitter is set).
DelayBeforeRetry(i, k) ==
    IF jitter THEN Jittered(Delay(i), k) ELSE Delay(i)

\* The draws line 65 may make: none is made without jitter.
Draws == IF jitter THEN RandomDraws ELSE {0}

\* Lines 50-54 with the 0-based loop index as the attempt.
NonRetryableErrorIndex(e, i) ==
    [ kind |-> "APIError",
      message |-> <<"Google Ads API error in ", FuncName>>,
      original_error |-> e,
      kwargs |-> [attempt |-> i],
      cause |-> e ]

\* Lines 50-54 carrying the constant 1 as the attempt.
NonRetryableErrorAlwaysOne(e, i) ==
    [ kind |-> "APIError",
      message |-> <<"Google Ads API error in ", FuncName>>,
      original_error |-> e,
      kwargs |-> [attempt |-> 1],
      cause |-> e ]

\* Lines 50-54 carrying the budget as the attempt.
NonRetryableErrorBudget(e, i) ==
    [ kind |-> "APIError",
      message |-> <<"Google Ads API error in ", FuncName>>,
      original_error |-> e,
      kwargs |-> [attempt |-> max_attempts],
      cause |-> e ]

\* Lines 50-54: APIError(..., original_error=e, attempt=attempt + 1) from e.
NonRetryableError(e, i) ==
    [ kind |-> "APIError",
      message |-> <<"Google Ads API error in ", FuncName>>,
      original_error |-> e,
      kwargs |-> [attempt |-> i + 1],
      cause |-> e ]

\* Lines 81-85: APIError(..., original_error=last_exception,
\* max_attempts=max_attempts) from last_exception.
ExhaustedError(last) ==
    [ kind |-> "APIError",
      message |-> <<"Max retries exceeded for ", FuncName>>,
      original_error |-> last,
      kwargs |-> [max_attempts |-> max_attempts],
      cause |-> last ]

\* f"{delay:.1f}": the decimal with one digit nearest to delay, ties to even.
Format1f(x) ==
    LET q == (10 * x[1]) \div x[2]
        r == (10 * x[1]) % x[2]
        t == IF 2 * r > x[2] THEN q + 1
             ELSE IF 2 * r < x[2] THEN q
             ELSE IF q % 2 = 0 THEN q ELSE q + 1
    IN  Rat(t, 10)

\* Line 49.
LogNonRetryable(e) ==
    [ level |-> "warning", text |-> "Non-retryable error in",
      func |-> FuncName, attempt |-> 0, of |-> 0, delay |-> Zero, error |-> e ]
\* Lines 67-70 logging the loop index instead of attempt + 1.
LogRetryZeroBased(e, i, delay) ==
    [ level |-> "warning", text |-> "Attempt failed, retrying in",
      func |-> FuncName, attempt |-> i, of |-> max_attempts,
      delay |-> Format1f(delay), error |-> e ]
\* Lines 67-70.
LogRetry(e, i, delay) ==
    [ level |-> "warning", text |-> "Attempt failed, retrying in",
      func |-> FuncName, attempt |-> i + 1, of |-> max_attempts,
      delay |-> Format1f(delay), error |-> e ]
\* Line 76.
LogUnexpected(e) ==
    [ level |-> "error", text |-> "Unexpected error in",
      func |-> FuncName, attempt |-> 0, of |-> 0, delay |-> Zero, error |-> e ]
\* Line 80.
LogExhausted ==
    [ level |-> "error", text |-> "All attempts failed for",
      func |-> FuncName, attempt |-> 0, of |-> max_attempts, delay |-> Zero,
      error |-> None ]

\* What the trace records: an invocation of func (line 42) with the value
\* it returned or the error it raised, or a call of time.sleep (line 72).
Invoked(value, error) ==
    [ev |-> "invoke", value |-> value, error |-> error, delay |-> Zero]
Slept(delay) ==
    [ev |-> "sleep", value |-> "", error |-> None, delay |-> delay]

Pending == [kind |-> "pending", value |-> "", exc |-> None]
Returned(v) == [kind |-> "returned", value |-> v, exc |-> None]
Raised(e) == [kind |-> "raised", value |-> "", exc |-> e]

-----------------------------------------------------------------------------
(* State machine.                                                          *)

Init ==
    /\ max_attempts \in MaxAttemptsChoices
    /\ base_delay \in BaseDelays
    /\ max_delay \in MaxDelays
    /\ backoff_factor \in BackoffFactors
    /\ jitter \in BOOLEAN
    /\ pc = [c \in Calls |-> "idle"]
    /\ attempt = [c \in Calls |-> 0]
    /\ last_exception = [c \in Calls |-> None]
    /\ outcome = [c \in Calls |-> Pending]
    /\ trace = [c \in Calls |-> <<>>]
    /\ log = [c \in Calls |-> <<>>]
    /\ events = [c \in Calls |-> <<>>]
    /\ callers = { "t1" }
    /\ cls_error = None
    /\ cls_result = <<>>
    /\ schedule = <<>>

\* Lines 37-40 with last_exception and the loop index kept in one place
\* for all calls instead of in the frame of each call.
CallWrapperSharedFrame(c) ==
    /\ c \in callers
    /\ pc[c] = "idle"
    /\ pc' = [pc EXCEPT ![c] = "loop"]
    /\ last_exception' = [d \in Calls |-> None]
    /\ attempt' = [d \in Calls |-> 0]
    /\ UNCHANGED <<config, outcome, trace, log, events, probes>>

\* Lines 37-40: wrapper is called; last_exception = None and the loop starts.
CallWrapper(c) ==
    /\ c \in callers
    /\ pc[c] = "idle"
    /\ pc' = [pc EXCEPT ![c] = "loop"]
    /\ last_exception' = [last_exception EXCEPT ![c] = None]
    /\ attempt' = [attempt EXCEPT ![c] = 0]
    /\ UNCHANGED <<config, outcome, trace, log, events, probes>>

\* Lines 40-42: func returns v and wrapper returns it.
FuncReturns(c, v) ==
    /\ pc[c] = "loop"
    /\ InRange(attempt[c])
    /\ trace' = [trace EXCEPT ![c] = Append(@, Invoked(v, None))]
    /\ outcome' = [outcome EXCEPT ![c] = Returned(v)]
    /\ events' = [events EXCEPT ![c] = @ \o <<"invoke", "return">>]
    /\ pc' = [pc EXCEPT ![c] = "done"]
    /\ UNCHANGED <<config, attempt, last_exception, log, probes>>

\* Lines 44-72 with the budget check of lines 57-58 placed before the
\* classification of line 48.
FuncRaisesAdsBudgetFirst(c, e) ==
    /\ pc[c] = "loop"
    /\ InRange(attempt[c])
    /\ last_exception' = [last_exception EXCEPT ![c] = LastException(@, e)]
    /\ IF LastAttempt(attempt[c])
       THEN /\ trace' = [trace EXCEPT ![c] = Append(@, Invoked("", e))]
            /\ log' = [log EXCEPT ![c] = Append(@, LogExhausted)]
            /\ events' = [events EXCEPT ![c] =
                             @ \o <<"invoke", "error", "raise">>]
            /\ outcome' = [outcome EXCEPT ![c] =
                              Raised(ExhaustedError(last_exception'[c]))]
            /\ pc' = [pc EXCEPT ![c] = "done"]
       ELSE IF ~_is_retryable_error(e)
       THEN /\ trace' = [trace EXCEPT ![c] = Append(@, Invoked("", e))]
            /\ log' = [log EXCEPT ![c] = Append(@, LogNonRetryable(e))]
            /\ events' = [events EXCEPT ![c] =
                             @ \o <<"invoke", "warning", "raise">>]
            /\ outcome' = [outcome EXCEPT ![c] =
                              Raised(NonRetryableError(e, attempt[c]))]
            /\ pc' = [pc EXCEPT ![c] = "done"]
       ELSE \E k \in Draws :
              LET delay == DelayBeforeRetry(attempt[c], k)
              IN  /\ trace' = [trace EXCEPT ![c] =
                                  @ \o <<Invoked("", e), Slept(delay)>>]
                  /\ log' = [log EXCEPT ![c] =
                                Append(@, LogRetry(e, attempt[c], delay))]
                  /\ events' = [events EXCEPT ![c] =
                                   @ \o <<"invoke", "warning", "sleep">>]
                  /\ pc' = [pc EXCEPT ![c] = "sleeping"]
                  /\ UNCHANGED outcome
    /\ UNCHANGED <<config, attempt, probes>>

\* Lines 44-72 and, after the break of line 58, lines 79-85: func raises the
\* GoogleAdsException e.
FuncRaisesAds(c, e) ==
    /\ pc[c] = "loop"
    /\ InRange(attempt[c])
    /\ last_exception' = [last_exception EXCEPT ![c] = LastException(@, e)]
    /\ IF ~_is_retryable_error(e)
       THEN /\ trace' = [trace EXCEPT ![c] = Append(@, Invoked("", e))]
            /\ log' = [log EXCEPT ![c] = Append(@, LogNonRetryable(e))]
            /\ events' = [events EXCEPT ![c] =
                             @ \o <<"invoke", "warning", "raise">>]
            /\ outcome' = [outcome EXCEPT ![c] =
                              Raised(NonRetryableError(e, attempt[c]))]
            /\ pc' = [pc EXCEPT ![c] = "done"]
       ELSE IF LastAttempt(attempt[c])
       THEN /\ trace' = [trace EXCEPT ![c] = Append(@, Invoked("", e))]
            /\ log' = [log EXCEPT ![c] = Append(@, LogExhausted)]
            /\ events' = [events EXCEPT ![c] =
                             @ \o <<"invoke", "error", "raise">>]
            /\ outcome' = [outcome EXCEPT ![c] =
                              Raised(ExhaustedError(last_exception'[c]))]
            /\ pc' = [pc EXCEPT ![c] = "done"]
       ELSE \E k \in Draws :
              LET delay == DelayBeforeRetry(attempt[c], k)
              IN  /\ trace' = [trace EXCEPT ![c] =
                                  @ \o <<Invoked("", e), Slept(delay)>>]
                  /\ log' = [log EXCEPT ![c] =
                                Append(@, LogRetry(e, attempt[c], delay))]
                  /\ events' = [events EXCEPT ![c] =
                                   @ \o <<"invoke", "warning", "sleep">>]
                  /\ pc' = [pc EXCEPT ![c] = "sleeping"]
                  /\ UNCHANGED outcome
    /\ UNCHANGED <<config, attempt, probes>>

\* Lines 74-77 raising an APIError in place of the bare `raise`.
FuncRaisesOtherWrapped(c, e) ==
    /\ pc[c] = "loop"
    /\ InRange(attempt[c])
    /\ trace' = [trace EXCEPT ![c] = Append(@, Invoked("", e))]
    /\ log' = [log EXCEPT ![c] =
                  IF e.is_exception THEN Append(@, LogUnexpected(e)) ELSE @]
    /\ events' = [events EXCEPT ![c] =
                     IF e.is_exception THEN @ \o <<"invoke", "error", "raise">>
                     ELSE @ \o <<"invoke", "raise">>]
    /\ outcome' = [outcome EXCEPT ![c] =
                      IF e.is_exception
                      THEN Raised(NonRetryableError(e, attempt[c]))
                      ELSE Raised(e)]
    /\ pc' = [pc EXCEPT ![c] = "done"]
    /\ UNCHANGED <<config, attempt, last_exception, probes>>

\* Lines 74-77 without the raise of line 77: an Exception is logged and
\* wrapper falls out of the handler, returning nothing.
FuncRaisesOtherSwallowed(c, e) ==
    /\ pc[c] = "loop"
    /\ InRange(attempt[c])
    /\ trace' = [trace EXCEPT ![c] = Append(@, Invoked("", e))]
    /\ log' = [log EXCEPT ![c] =
                  IF e.is_exception THEN Append(@, LogUnexpected(e)) ELSE @]
    /\ events' = [events EXCEPT ![c] =
                     IF e.is_exception THEN @ \o <<"invoke", "error", "return">>
                     ELSE @ \o <<"invoke", "raise">>]
    /\ outcome' = [outcome EXCEPT ![c] =
                      IF e.is_exception THEN Returned("") ELSE Raised(e)]
    /\ pc' = [pc EXCEPT ![c] = "done"]
    /\ UNCHANGED <<config, attempt, last_exception, probes>>

\* Lines 74-77: func raises an error that is no GoogleAdsException; an
\* Exception is logged and re-raised, any other BaseException passes through.
FuncRaisesOther(c, e) ==
    /\ pc[c] = "loop"
    /\ InRange(attempt[c])
    /\ trace' = [trace EXCEPT ![c] = Append(@, Invoked("", e))]
    /\ log' = [log EXCEPT ![c] =
                  IF e.is_exception THEN Append(@, LogUnexpected(e)) ELSE @]
    /\ events' = [events EXCEPT ![c] =
                     IF e.is_exception THEN @ \o <<"invoke", "error", "raise">>
                     ELSE @ \o <<"invoke", "raise">>]
    /\ outcome' = [outcome EXCEPT ![c] = Raised(e)]
    /\ pc' = [pc EXCEPT ![c] = "done"]
    /\ UNCHANGED <<config, attempt, last_exception, probes>>

\* Line 72 returns and the loop takes the next index (line 40).
SleepReturns(c) ==
    /\ pc[c] = "sleeping"
    /\ attempt' = [attempt EXCEPT ![c] = @ + 1]
    /\ pc' = [pc EXCEPT ![c] = "loop"]
    /\ UNCHANGED <<config, last_exception, outcome, trace, log, events, probes>>

\* Line 40 finds the range used up, then lines 79-85.
RangeExhausted(c) ==
    /\ pc[c] = "loop"
    /\ ~InRange(attempt[c])
    /\ log' = [log EXCEPT ![c] = Append(@, LogExhausted)]
    /\ events' = [events EXCEPT ![c] = @ \o <<"error", "raise">>]
    /\ outcome' = [outcome EXCEPT ![c] = Raised(ExhaustedError(last_exception[c]))]
    /\ pc' = [pc EXCEPT ![c] = "done"]
    /\ UNCHANGED <<config, attempt, last_exception, trace, probes>>

Next ==
    \E c \in Calls :
        \/ CallWrapper(c)
        \/ \E v \in Results : FuncReturns(c, v)
        \/ \E e \in AdsErrors : FuncRaisesAds(c, e)
        \/ \E e \in OtherErrors : FuncRaisesOther(c, e)
        \/ SleepReturns(c)
        \/ RangeExhausted(c)

Spec == Init /\ [][Next]_vars

\* Two threads call the same decorated function (one decorator call, lines
\* 15-21 and 35, hence one set of argument values) at the same time.
InitConcurrent ==
    /\ max_attempts \in { 0, 2 }
    /\ base_delay = One
    /\ max_delay = Thirty
    /\ backoff_factor = Two
    /\ jitter \in BOOLEAN
    /\ pc = [c \in Calls |-> "idle"]
    /\ attempt = [c \in Calls |-> 0]
    /\ last_exception = [c \in Calls |-> None]
    /\ outcome = [c \in Calls |-> Pending]
    /\ trace = [c \in Calls |-> <<>>]
    /\ log = [c \in Calls |-> <<>>]
    /\ events = [c \in Calls |-> <<>>]
    /\ callers = Calls
    /\ cls_error = None
    /\ cls_result = <<>>
    /\ schedule = <<>>

SpecConcurrent == InitConcurrent /\ [][Next]_vars

\* The steps of call c that end an invocation of func (line 42), a call of
\* time.sleep (line 72) or the loop (line 40).
Progress(c) ==
    \/ \E v \in Results : FuncReturns(c, v)
    \/ \E e \in AdsErrors : FuncRaisesAds(c, e)
    \/ \E e \in OtherErrors : FuncRaisesOther(c, e)
    \/ SleepReturns(c)
    \/ RangeExhausted(c)

\* Every invocation of func and every call of time.sleep returns or raises.
SpecFair == Spec /\ \A c \in Calls : WF_vars(Progress(c))

-----------------------------------------------------------------------------
(* _is_retryable_error called on its own, on each of ClassifyInputs, under *)
(* the default arguments of lines 16-20.                                   *)

IdleCalls ==
    /\ pc = [c \in Calls |-> "idle"]
    /\ attempt = [c \in Calls |-> 0]
    /\ last_exception = [c \in Calls |-> None]
    /\ outcome = [c \in Calls |-> Pending]
    /\ trace = [c \in Calls |-> <<>>]
    /\ log = [c \in Calls |-> <<>>]
    /\ events = [c \in Calls |-> <<>>]
    /\ callers = {}

InitClassify ==
    /\ max_attempts = 3
    /\ base_delay = One
    /\ max_delay = Thirty
    /\ backoff_factor = Two
    /\ jitter = TRUE
    /\ IdleCalls
    /\ cls_error \in ClassifyInputs
    /\ cls_result = <<>>
    /\ schedule = <<>>

\* Lines 91-130: one call of _is_retryable_error(cls_error).
Classify ==
    /\ cls_result = <<>>
    /\ cls_result' = <<_is_retryable_error(cls_error)>>
    /\ UNCHANGED <<config, calls, callers, cls_error, schedule>>

SpecClassify == InitClassify /\ [][Classify]_vars

-----------------------------------------------------------------------------
(* The delay computation of lines 61-65 on its own, for the attempt        *)
(* indices 0 .. MaxIndex - 1 in turn.                                      *)

\* Number of attempt indices the schedule is computed for.
MaxIndex == 4

ThreeHalves == <<3, 2>>

InitDelay ==
    /\ max_attempts = MaxIndex + 1
    /\ base_delay \in { Half, One, Two }
    /\ max_delay \in { One, Three, Thirty }
    /\ backoff_factor \in { Half, One, ThreeHalves, Two }
    /\ jitter \in BOOLEAN
    /\ IdleCalls
    /\ cls_error = None
    /\ cls_result = <<>>
    /\ schedule = <<>>

\* Lines 61-65 for the next attempt index, with draw k of random.random().
ComputeDelay(k) ==
    /\ Len(schedule) < MaxIndex
    /\ LET i == Len(schedule)
       IN  schedule' = Append(schedule,
                              [index |-> i, delay |-> DelayBeforeRetry(i, k)])
    /\ UNCHANGED <<config, calls, callers, cls_error, cls_result>>

NextDelay == \E k \in Draws : ComputeDelay(k)

SpecDelay == InitDelay /\ [][NextDelay]_vars

-----------------------------------------------------------------------------
(* Vocabulary of the properties.                                           *)

\* The retry policy's lists as the specification gives them (section 4.1).
AllowListedCodes ==
    { <<"I","N","T","E","R","N","A","L","_","E","R","R","O","R">>,
      <<"Q","U","O","T","A","_","E","R","R","O","R">>,
      <<"R","A","T","E","_","E","X","C","E","E","D","E","D">>,
      <<"C","O","N","C","U","R","R","E","N","T","_","M","O","D","I","F","I","C","A","T","I","O","N">>,
      <<"P","A","R","T","I","A","L","_","F","A","I","L","U","R","E","_","E","R","R","O","R">> }
ListedPhrases ==
    { <<"i","n","t","e","r","n","a","l"," ","e","r","r","o","r">>,
      <<"r","a","t","e"," ","e","x","c","e","e","d","e","d">>,
      <<"q","u","o","t","a"," ","e","x","c","e","e","d","e","d">>,
      <<"t","i","m","e","o","u","t">>,
      <<"t","e","m","p","o","r","a","r","y"," ","f","a","i","l","u","r","e">>,
      <<"s","e","r","v","i","c","e"," ","u","n","a","v","a","i","l","a","b","l","e">> }

\* word occurs in text when letter case is ignored.
ContainsIgnoringCase(text, word) ==
    \E off \in 0..(Len(text) - Len(word)) :
        \A j \in 1..Len(word) : UpperChar(text[off + j]) = UpperChar(word[j])

\* The classification the specification states: retryable when the code
\* holds an allow-listed code or the message holds a listed phrase.
SpecRetryable(e) ==
    \/ /\ e.has_error
       /\ e.has_error_code
       /\ \E code \in AllowListedCodes : ContainsIgnoringCase(e.error_code, code)
    \/ \E phrase \in ListedPhrases : ContainsIgnoringCase(e.message, phrase)

IsInvoke(ev) == ev.ev = "invoke"
IsSleep(ev) == ev.ev = "sleep"
Invocations(c) == SelectSeq(trace[c], IsInvoke)
Sleeps(c) == SelectSeq(trace[c], IsSleep)
SleepDelays(c) == [n \in 1..Len(Sleeps(c)) |-> Sleeps(c)[n].delay]

\* The errors of AdsErrors that the specification classifies as retryable.
RetryableErrors == { e \in AdsErrors : SpecRetryable(e) }

Succeeded(ev) == ev.error = None
FailedRetryable(ev) == ev.error \in RetryableErrors
FailedFatal(ev) == ev.error \in AdsErrors \ RetryableErrors
FailedUnexpected(ev) == ev.error.kind = "other"

\* Every invocation made so far failed with a retryable classified error.
AllRetryable(c) ==
    \A n \in 1..Len(Invocations(c)) : FailedRetryable(Invocations(c)[n])

Terminated(c) == pc[c] = "done"
RaisedAPIError(c) ==
    outcome[c].kind = "raised" /\ outcome[c].exc.kind = "APIError"
RaisedExhausted(c) ==
    RaisedAPIError(c) /\ outcome[c].exc.message[1] = "Max retries exceeded for "
RaisedNonRetryable(c) ==
    RaisedAPIError(c) /\ outcome[c].exc.message[1] = "Google Ads API error in "

\* base_delay * backoff_factor^i, and that value capped at max_delay.
RECURSIVE IPow(_, _)
IPow(b, k) == IF k = 0 THEN 1 ELSE b * IPow(b, k - 1)
UncappedDelay(i) ==
    Rat(base_delay[1] * IPow(backoff_factor[1], i),
        base_delay[2] * IPow(backoff_factor[2], i))
CappedDelay(i) ==
    IF RLe(UncappedDelay(i), max_delay) THEN UncappedDelay(i) ELSE max_delay

-----------------------------------------------------------------------------
(* Properties.                                                             *)

\* C1: with max_attempts = N >= 1, a call whose every invocation of func
\* failed with a retryable classified error has, once it has terminated,
\* invoked func exactly N times and raised the exhausted failure, whose
\* count is N; before that it has made fewer than N invocations and has
\* not terminated.
C1_ExhaustedAfterN ==
    \A c \in Calls :
        (max_attempts >= 1 /\ pc[c] # "idle" /\ AllRetryable(c)) =>
            IF Terminated(c)
            THEN /\ Len(Invocations(c)) = max_attempts
                 /\ RaisedExhausted(c)
                 /\ outcome[c].exc.kwargs.max_attempts = Len(Invocations(c))
            ELSE Len(Invocations(c)) < max_attempts

C1_Witness ==
    \E c \in Calls :
        /\ max_attempts = 3
        /\ Terminated(c)
        /\ AllRetryable(c)
        /\ Len(Invocations(c)) = 3
        /\ RaisedExhausted(c)

\* C2: when the first invocation of func fails with a fatal classified
\* error, that invocation is the only one, the call has terminated with the
\* non-retryable failure, and time.sleep was never called, whatever
\* max_attempts is.
C2_FatalFirstAttempt ==
    \A c \in Calls :
        (Len(Invocations(c)) >= 1 /\ FailedFatal(Invocations(c)[1])) =>
            /\ Len(trace[c]) = 1
            /\ Terminated(c)
            /\ RaisedNonRetryable(c)
            /\ outcome[c].exc.original_error = Invocations(c)[1].error

C2_Witness ==
    \E c \in Calls :
        /\ max_attempts = 3
        /\ Len(Invocations(c)) = 1
        /\ FailedFatal(Invocations(c)[1])
        /\ RaisedNonRetryable(c)
        /\ Sleeps(c) = <<>>

\* C3: an invocation of func that returns is the last one, the call
\* terminates returning that value with no error raised, and it is
\* invocation k+1 for some k < max_attempts; and for every k < max_attempts
\* a call whose k invocations so far all failed retryably is still running,
\* so that attempt k is made.
C3_SuccessOnAttemptK ==
    \A c \in Calls :
        /\ \A n \in 1..Len(Invocations(c)) :
              Succeeded(Invocations(c)[n]) =>
                  /\ n = Len(Invocations(c))
                  /\ n <= max_attempts
                  /\ \A m \in 1..(n - 1) : FailedRetryable(Invocations(c)[m])
                  /\ Terminated(c)
                  /\ outcome[c] = Returned(Invocations(c)[n].value)
        /\ (pc[c] # "idle" /\ AllRetryable(c)
              /\ Len(Invocations(c)) < max_attempts) => ~Terminated(c)

C3_Witness ==
    \E c \in Calls :
        /\ Len(Invocations(c)) = 3
        /\ Succeeded(Invocations(c)[3])
        /\ outcome[c] = Returned("rows")

\* C4: an error that is no GoogleAdsException, raised by func at any
\* attempt, ends the call: it is the last invocation, nothing is slept after
\* it, and the call raises that very error, not an APIError.
C4_UnexpectedPropagates ==
    \A c \in Calls :
        \A n \in 1..Len(Invocations(c)) :
            FailedUnexpected(Invocations(c)[n]) =>
                /\ n = Len(Invocations(c))
                /\ IsInvoke(trace[c][Len(trace[c])])
                /\ Terminated(c)
                /\ outcome[c] = Raised(Invocations(c)[n].error)
                /\ ~RaisedAPIError(c)

C4_Witness ==
    \E c \in Calls :
        /\ max_attempts = 3
        /\ Len(Invocations(c)) = 2
        /\ FailedUnexpected(Invocations(c)[2])
        /\ outcome[c] = Raised(ValueError)

\* C5: at every moment of a call the number of invocations of func is at
\* most max_attempts; every sleep comes directly after a failed invocation
\* and, once the call has terminated, is followed by another invocation, so
\* no sleep follows the last attempt: with max_attempts >= 1 a terminated
\* call has slept fewer times than it has invoked func.
C5_AttemptBudget ==
    \A c \in Calls :
        /\ Len(Invocations(c)) <= max_attempts
        /\ Len(Sleeps(c)) <= Len(Invocations(c))
        /\ \A p \in 1..Len(trace[c]) :
              IsSleep(trace[c][p]) =>
                  /\ p > 1
                  /\ IsInvoke(trace[c][p - 1])
                  /\ ~Succeeded(trace[c][p - 1])
                  /\ p < Len(trace[c]) => IsInvoke(trace[c][p + 1])
                  /\ Terminated(c) => p < Len(trace[c])
        /\ (Terminated(c) /\ max_attempts >= 1) =>
              Len(Sleeps(c)) < Len(Invocations(c))

C5_Witness ==
    \E c \in Calls :
        /\ max_attempts = 3
        /\ Terminated(c)
        /\ Len(Invocations(c)) = 3
        /\ Len(Sleeps(c)) = 2

\* C6: attempts and sleeps alternate, starting with an attempt.  A
\* retryable failure of attempt i < max_attempts - 1 is directly followed by
\* one sleep of the delay for index i (the capped backoff value, or with
\* jitter a fraction of it between one half and all of it) and, once the
\* sleep returns, attempt i + 1 is due; a retryable failure of attempt
\* max_attempts - 1 is followed by no sleep and raises the exhausted
\* failure.  With jitter off a call that failed retryably throughout has
\* slept delay(0), ..., delay(N-2): <<1, 2>> after 3 invocations for
\* max_attempts = 3, base_delay = 1, backoff_factor = 2.
C6_AttemptsAndSleepsAlternate ==
    \A c \in Calls :
        /\ \A p \in 1..Len(trace[c]) :
              IF p % 2 = 1 THEN IsInvoke(trace[c][p]) ELSE IsSleep(trace[c][p])
        /\ \A n \in 1..Len(Invocations(c)) :
              FailedRetryable(Invocations(c)[n]) =>
                  IF n - 1 < max_attempts - 1
                  THEN /\ Len(trace[c]) >= 2 * n
                       /\ IsSleep(trace[c][2 * n])
                       /\ LET d == trace[c][2 * n].delay
                          IN  IF jitter
                              THEN /\ RLe(RMul(Half, CappedDelay(n - 1)), d)
                                   /\ RLe(d, CappedDelay(n - 1))
                              ELSE d = CappedDelay(n - 1)
                  ELSE /\ Len(trace[c]) = 2 * n - 1
                       /\ Terminated(c)
                       /\ RaisedExhausted(c)
        /\ pc[c] = "sleeping" =>
              /\ Len(trace[c]) = 2 * (attempt[c] + 1)
              /\ attempt[c] + 1 < max_attempts
        /\ (pc[c] = "loop" /\ max_attempts >= 1) =>
              /\ Len(trace[c]) = 2 * attempt[c]
              /\ attempt[c] < max_attempts
        /\ (~jitter /\ Terminated(c) /\ AllRetryable(c) /\ max_attempts >= 1) =>
              /\ Len(SleepDelays(c)) = max_attempts - 1
              /\ \A i \in 0..(max_attempts - 2) :
                    SleepDelays(c)[i + 1] = CappedDelay(i)
        /\ (~jitter /\ Terminated(c) /\ AllRetryable(c) /\ max_attempts = 3
              /\ base_delay = One /\ backoff_factor = Two
              /\ RLe(Two, max_delay)) =>
              /\ SleepDelays(c) = <<One, Two>>
              /\ Len(Invocations(c)) = 3
              /\ RaisedExhausted(c)

C6_Witness ==
    \E c \in Calls :
        /\ max_attempts = 3
        /\ base_delay = One
        /\ backoff_factor = Two
        /\ max_delay = Thirty
        /\ ~jitter
        /\ Terminated(c)
        /\ \A n \in 1..3 : Invocations(c)[n].error = ErrRateExceeded
        /\ SleepDelays(c) = <<One, Two>>
        /\ RaisedExhausted(c)

\* C7: without jitter the delay computed for attempt index i is
\* min(base_delay * backoff_factor^i, max_delay); it never exceeds
\* max_delay and, for base_delay > 0 and backoff_factor >= 1, it is not
\* smaller than the delay computed for index i - 1.
C7_DelayMonotoneCapped ==
    ~jitter =>
        \A n \in 1..Len(schedule) :
            /\ schedule[n].index = n - 1
            /\ schedule[n].delay = CappedDelay(n - 1)
            /\ RLe(schedule[n].delay, max_delay)
            /\ (n > 1 /\ RLt(Zero, base_delay) /\ RLe(One, backoff_factor)) =>
                  RLe(schedule[n - 1].delay, schedule[n].delay)

C7_Witness ==
    /\ ~jitter
    /\ RLe(One, backoff_factor)
    /\ Len(schedule) >= 3
    /\ RLt(schedule[1].delay, schedule[2].delay)
    /\ RLt(schedule[2].delay, schedule[3].delay)
    /\ schedule[3].delay = max_delay
    /\ RLt(max_delay, UncappedDelay(2))

\* C8 as stated: with jitter every delay sample for attempt index i lies in
\* [0.5, 1.0) * uncapped_value, uncapped_value = base_delay *
\* backoff_factor^i, and is at most max_delay (stated for base_delay > 0,
\* max_delay >= base_delay and backoff_factor >= 1).
C8_SampleWithinUncapped ==
    (/\ jitter
     /\ RLt(Zero, base_delay)
     /\ RLe(base_delay, max_delay)
     /\ RLe(One, backoff_factor)) =>
        \A n \in 1..Len(schedule) :
            /\ RLe(RMul(Half, UncappedDelay(n - 1)), schedule[n].delay)
            /\ RLt(schedule[n].delay, UncappedDelay(n - 1))
            /\ RLe(schedule[n].delay, max_delay)

\* C8, amended: with jitter every delay sample for attempt index i lies
\* between one half of the capped value min(base_delay * backoff_factor^i,
\* max_delay) and that capped value, both ends included, so it is at most
\* max_delay.
C8_SampleWithinCapped ==
    jitter =>
        \A n \in 1..Len(schedule) :
            /\ RLe(RMul(Half, CappedDelay(n - 1)), schedule[n].delay)
            /\ RLe(schedule[n].delay, CappedDelay(n - 1))
            /\ RLe(schedule[n].delay, max_delay)

\* A sample below half of the uncapped value, taken where the cap applies.
C8_Witness ==
    /\ jitter
    /\ \E n \in 1..Len(schedule) :
          /\ RLt(max_delay, UncappedDelay(n - 1))
          /\ RLt(schedule[n].delay, RMul(Half, UncappedDelay(n - 1)))
          /\ RLe(RMul(Half, max_delay), schedule[n].delay)

\* C9: _is_retryable_error returns True exactly when the error has a code
\* that, letter case ignored, contains one of the five allow-listed codes,
\* or its message, letter case ignored, contains one of the six listed
\* phrases; for every other error it returns False.
C9_ClassifyMatchesLists ==
    /\ retryable_error_codes = AllowListedCodes
    /\ Cardinality(retryable_error_codes) = 5
    /\ retryable_messages = ListedPhrases
    /\ Cardinality(retryable_messages) = 6
    /\ cls_result # <<>> => cls_result[1] = SpecRetryable(cls_error)

\* An error classified retryable on the strength of a code that is not in
\* upper case, its message holding no listed phrase.
C9_Witness ==
    /\ cls_result = <<TRUE>>
    /\ cls_error.has_error_code
    /\ cls_error.error_code # Upper(cls_error.error_code)
    /\ \A phrase \in ListedPhrases :
          ~ContainsIgnoringCase(cls_error.message, phrase)

\* C10 as stated: every APIError raised by wrapper carries four fields: a
\* message naming the operation, the original error, an attempt count (the
\* attempt or max_attempts keyword is taken for it) and a reason tag that is
\* non_retryable for a fatal error and exhausted when the budget ran out
\* (stated for max_attempts >= 1).
C10_FourFields ==
    \A c \in Calls :
        (RaisedAPIError(c) /\ max_attempts >= 1) =>
            LET x == outcome[c].exc
                n == Len(Invocations(c))
            IN  /\ x.message[2] = FuncName
                /\ "original_error" \in DOMAIN x
                /\ DOMAIN x.kwargs \cap {"attempt", "max_attempts"} # {}
                /\ "reason" \in DOMAIN x.kwargs
                /\ x.kwargs.reason =
                      IF n > 0 /\ FailedFatal(Invocations(c)[n])
                      THEN "non_retryable" ELSE "exhausted"

\* C10, amended: every APIError raised by wrapper carries a message naming
\* the operation and the original error, which is the error of the last
\* invocation (None when func was never invoked) and also its cause.  After
\* a fatal error the message is "Google Ads API error in <name>" and the only
\* keyword is attempt, the number of invocations made; otherwise the message
\* is "Max retries exceeded for <name>" and the only keyword is max_attempts,
\* the configured budget.  No reason tag is carried.
C10_FailureFields ==
    \A c \in Calls :
        RaisedAPIError(c) =>
            LET x == outcome[c].exc
                n == Len(Invocations(c))
            IN  /\ x.message[2] = FuncName
                /\ x.original_error =
                      IF n = 0 THEN None ELSE Invocations(c)[n].error
                /\ x.cause = x.original_error
                /\ "reason" \notin DOMAIN x
                /\ "reason" \notin DOMAIN x.kwargs
                /\ IF n > 0 /\ FailedFatal(Invocations(c)[n])
                   THEN /\ RaisedNonRetryable(c)
                        /\ DOMAIN x.kwargs = {"attempt"}
                        /\ x.kwargs.attempt = n
                   ELSE /\ RaisedExhausted(c)
                        /\ DOMAIN x.kwargs = {"max_attempts"}
                        /\ x.kwargs.max_attempts = max_attempts
                        /\ AllRetryable(c)
                        /\ max_attempts >= 1 => n = max_attempts

C10_Witness ==
    \E c \in Calls :
        /\ max_attempts = 2
        /\ RaisedExhausted(c)
        /\ Len(Invocations(c)) = 2
        /\ Invocations(c)[1].error = ErrRateExceeded
        /\ outcome[c].exc.original_error = ErrUnavailable

\* C11 as stated: a non-retryable failure is surfaced immediately (the fatal
\* invocation is the last thing the call did, and the call has terminated)
\* and the attempt count it carries is 1.
C11_AttemptCountOne ==
    \A c \in Calls :
        RaisedNonRetryable(c) =>
            /\ Terminated(c)
            /\ FailedFatal(trace[c][Len(trace[c])])
            /\ outcome[c].exc.kwargs.attempt = 1

\* C11, amended: a non-retryable failure is surfaced immediately: the fatal
\* invocation is the last event of the call, no sleep and no invocation
\* follows it, exactly one fatal error was observed and the call has
\* terminated.  The attempt count it carries is one more than the number of
\* sleeps the call made, so it is 1 exactly when the fatal error came from
\* the first invocation and greater than 1 after earlier retries.
C11_SurfacedImmediately ==
    \A c \in Calls :
        RaisedNonRetryable(c) =>
            LET last == trace[c][Len(trace[c])]
                fatal == SelectSeq(trace[c], FailedFatal)
            IN  /\ Terminated(c)
                /\ IsInvoke(last)
                /\ FailedFatal(last)
                /\ Len(fatal) = 1
                /\ outcome[c].exc.original_error = last.error
                /\ outcome[c].exc.kwargs.attempt = Len(Sleeps(c)) + 1
                /\ (outcome[c].exc.kwargs.attempt = 1) <=> (Len(trace[c]) = 1)

C11_Witness ==
    \E c \in Calls :
        /\ RaisedNonRetryable(c)
        /\ Len(Sleeps(c)) = 1
        /\ FailedRetryable(trace[c][1])
        /\ outcome[c].exc.kwargs.attempt = 2

\* C12: a call that raised the exhausted failure has invoked func exactly
\* max_attempts times, every one of those invocations failed with a
\* retryable classified error, and (when there was an invocation) the
\* original error and the cause of the failure are the error raised by the
\* last, max_attempts-th, invocation, which is also what last_exception
\* holds.
C12_ExhaustedLinksLastError ==
    \A c \in Calls :
        RaisedExhausted(c) =>
            LET inv == Invocations(c)
            IN  /\ Len(inv) = max_attempts
                /\ \A n \in 1..Len(inv) : inv[n].error \in RetryableErrors
                /\ Len(inv) >= 1 =>
                      /\ outcome[c].exc.original_error = inv[max_attempts].error
                      /\ outcome[c].exc.cause = inv[max_attempts].error
                      /\ last_exception[c] = inv[max_attempts].error

C12_Witness ==
    \E c \in Calls :
        /\ max_attempts = 3
        /\ RaisedExhausted(c)
        /\ Invocations(c)[1].error = ErrUnavailable
        /\ Invocations(c)[2].error = ErrUnavailable
        /\ Invocations(c)[3].error = ErrRateExceeded
        /\ outcome[c].exc.original_error = ErrRateExceeded

\* The four terminal outcomes of a call.
OutcomeResult(c) ==
    /\ outcome[c].kind = "returned"
    /\ Len(Invocations(c)) >= 1
    /\ Succeeded(Invocations(c)[Len(Invocations(c))])
    /\ outcome[c].value = Invocations(c)[Len(Invocations(c))].value
    /\ outcome[c].value \in Results
OutcomeNonRetryable(c) ==
    /\ RaisedNonRetryable(c)
    /\ outcome[c].exc.original_error \in AdsErrors \ RetryableErrors
OutcomeExhausted(c) ==
    /\ RaisedExhausted(c)
    /\ outcome[c].exc.original_error \in RetryableErrors \cup { None }
OutcomeUnexpected(c) ==
    /\ outcome[c].kind = "raised"
    /\ outcome[c].exc \in OtherErrors
    /\ Len(Invocations(c)) >= 1
    /\ outcome[c].exc = Invocations(c)[Len(Invocations(c))].error
OutcomesOf(c) ==
    { k \in { "result", "non_retryable", "exhausted", "unexpected" } :
        \/ k = "result" /\ OutcomeResult(c)
        \/ k = "non_retryable" /\ OutcomeNonRetryable(c)
        \/ k = "exhausted" /\ OutcomeExhausted(c)
        \/ k = "unexpected" /\ OutcomeUnexpected(c) }

\* C13: when every invocation of func and every sleep returns, every call
\* of wrapper that has started eventually terminates; a terminated call has
\* exactly one of the four outcomes (the value func returned, the
\* non-retryable failure, the exhausted failure, or the unexpected error of
\* func unchanged), and a call that has not terminated has no outcome.
C13_TerminatesInOneOfFour ==
    /\ \A c \in Calls : (pc[c] # "idle") ~> Terminated(c)
    /\ [](\A c \in Calls :
            IF Terminated(c)
            THEN Cardinality(OutcomesOf(c)) = 1
            ELSE outcome[c] = Pending /\ OutcomesOf(c) = {})

C13_Witness ==
    \E c \in Calls :
        /\ Terminated(c)
        /\ Len(Sleeps(c)) = 2
        /\ OutcomesOf(c) = { "unexpected" }

\* The state of call c: the position, the local variables attempt and
\* last_exception of its frame, and what it has done and produced.
Local(c) ==
    <<pc[c], attempt[c], last_exception[c], outcome[c], trace[c], log[c],
      events[c]>>

\* What a call running alone holds after the invocations and sleeps of its
\* own trace: the attempt index is the number of sleeps that have returned,
\* last_exception the classified error of its latest failed invocation.
AttemptAlone(c) ==
    IF pc[c] = "sleeping" THEN Len(Sleeps(c)) - 1 ELSE Len(Sleeps(c))
ClassifiedFailures(c) ==
    SelectSeq(trace[c], LAMBDA ev : ev.error \in AdsErrors)
LastExceptionAlone(c) ==
    IF ClassifiedFailures(c) = <<>> THEN None
    ELSE ClassifiedFailures(c)[Len(ClassifiedFailures(c))].error
OutcomeAlone(c) ==
    LET inv == Invocations(c)
        n == Len(inv)
    IN  IF ~Terminated(c) THEN Pending
        ELSE IF n = 0 THEN Raised(ExhaustedError(None))
        ELSE IF Succeeded(inv[n]) THEN Returned(inv[n].value)
        ELSE IF FailedUnexpected(inv[n]) THEN Raised(inv[n].error)
        ELSE IF FailedFatal(inv[n])
        THEN Raised(NonRetryableError(inv[n].error, n - 1))
        ELSE Raised(ExhaustedError(inv[n].error))

\* C14: with two calls of wrapper interleaved in any way, each call's
\* attempt index, last_exception and outcome are what the call's own
\* invocations and sleeps give when it runs alone; a step of one call leaves
\* the state of the other call as it was; and no step changes max_attempts,
\* base_delay, max_delay, backoff_factor or jitter.
C14_CallsShareNothing ==
    /\ [](\A c \in Calls :
            /\ attempt[c] = AttemptAlone(c)
            /\ last_exception[c] = LastExceptionAlone(c)
            /\ outcome[c] = OutcomeAlone(c))
    /\ [][ /\ config' = config
           /\ \E c \in Calls : \A d \in Calls \ { c } : Local(d)' = Local(d)
         ]_vars

C14_Witness ==
    /\ pc["t1"] = "loop"
    /\ attempt["t1"] = 1
    /\ last_exception["t1"] = ErrRateExceeded
    /\ Terminated("t2")
    /\ attempt["t2"] = 0
    /\ last_exception["t2"] = ErrInvalidArgument
    /\ RaisedNonRetryable("t2")

\* The levels of the log calls of call c in the order of its events.
IsLogTag(tag) == tag \in { "warning", "error" }
LoggedLevels(c) == SelectSeq(events[c], IsLogTag)
\* The last n events of call c.
LastEvents(c, n) ==
    IF Len(events[c]) < n THEN <<>>
    ELSE SubSeq(events[c], Len(events[c]) - n + 1, Len(events[c]))
LastLog(c) == log[c][Len(log[c])]
\* logged is amount rounded to one decimal.
RoundedToTenth(logged, amount) ==
    /\ 10 % logged[2] = 0
    /\ 20 * Abs(logged[1] * amount[2] - amount[1] * logged[2])
          <= logged[2] * amount[2]

\* The log holds one entry per log call of the events, with its level.
LogMatchesEvents(c) ==
    /\ Len(log[c]) = Len(LoggedLevels(c))
    /\ \A n \in 1..Len(log[c]) : log[c][n].level = LoggedLevels(c)[n]

\* Each retry decision: the n-th sleep follows directly on a warning, which
\* follows directly on the failed invocation; that warning is the n-th log
\* entry and carries the attempt number n, the budget, the delay slept
\* (rounded to one decimal) and the retryable error of the n-th invocation.
RetryDecisionsLogged(c) ==
    /\ \A p \in 1..Len(events[c]) :
          events[c][p] = "sleep" =>
              /\ p >= 3
              /\ events[c][p - 1] = "warning"
              /\ events[c][p - 2] = "invoke"
    /\ Len(log[c]) >= Len(Sleeps(c))
    /\ \A n \in 1..Len(Sleeps(c)) :
          /\ log[c][n].level = "warning"
          /\ log[c][n].func = FuncName
          /\ log[c][n].attempt = n
          /\ log[c][n].of = max_attempts
          /\ log[c][n].error = Invocations(c)[n].error
          /\ log[c][n].error \in RetryableErrors
          /\ RoundedToTenth(log[c][n].delay, Sleeps(c)[n].delay)

\* A non-retryable decision: a warning with the fatal error, then the raise.
NonRetryableDecisionLogged(c) ==
    RaisedNonRetryable(c) =>
        /\ LastEvents(c, 3) = <<"invoke", "warning", "raise">>
        /\ Len(log[c]) = Len(Sleeps(c)) + 1
        /\ LastLog(c).level = "warning"
        /\ LastLog(c).func = FuncName
        /\ LastLog(c).error = outcome[c].exc.original_error

\* Final exhaustion: an error event with the budget, then the raise.
ExhaustionLogged(c) ==
    RaisedExhausted(c) =>
        /\ LastEvents(c, 2) = <<"error", "raise">>
        /\ Len(log[c]) = Len(Sleeps(c)) + 1
        /\ LastLog(c).level = "error"
        /\ LastLog(c).func = FuncName
        /\ LastLog(c).of = max_attempts

\* An error of func that is no classified error: an error event with that
\* error, then the raise.
UnexpectedLogged(c) ==
    /\ LastEvents(c, 3) = <<"invoke", "error", "raise">>
    /\ Len(log[c]) = Len(Sleeps(c)) + 1
    /\ LastLog(c).level = "error"
    /\ LastLog(c).func = FuncName
    /\ LastLog(c).error = outcome[c].exc

\* C15 as stated: every decision point emits a log event: each retry
\* decision a warning with attempt number, delay and error before the sleep,
\* a non-retryable decision a warning, an unexpected error (any error of
\* func that is no classified error) an error event, and final exhaustion an
\* error event before the exhausted failure is raised.
C15_EveryDecisionLogs ==
    \A c \in Calls :
        /\ LogMatchesEvents(c)
        /\ RetryDecisionsLogged(c)
        /\ NonRetryableDecisionLogged(c)
        /\ ExhaustionLogged(c)
        /\ OutcomeUnexpected(c) => UnexpectedLogged(c)

\* C15, amended: as stated for the retry, non-retryable and exhaustion
\* decisions; an unexpected error emits an error event only when it is an
\* Exception; a raised BaseException that is no Exception (KeyboardInterrupt,
\* SystemExit) leaves wrapper with no log event at all; a call that returns
\* the result logs nothing beyond its retry warnings.
C15_DecisionsLogged ==
    \A c \in Calls :
        /\ LogMatchesEvents(c)
        /\ RetryDecisionsLogged(c)
        /\ NonRetryableDecisionLogged(c)
        /\ ExhaustionLogged(c)
        /\ OutcomeUnexpected(c) =>
              IF outcome[c].exc.is_exception
              THEN UnexpectedLogged(c)
              ELSE /\ LastEvents(c, 2) = <<"invoke", "raise">>
                   /\ Len(log[c]) = Len(Sleeps(c))
        /\ OutcomeResult(c) => Len(log[c]) = Len(Sleeps(c))

C15_Witness ==
    \E c \in Calls :
        /\ jitter
        /\ Len(Sleeps(c)) = 2
        /\ log[c][2].delay # Sleeps(c)[2].delay
        /\ outcome[c] = Raised(KeyboardInterrupt)
        /\ Len(log[c]) = 2

\* The classified error lacks the attribute error or the attribute
\* error.error_code.
NoCodeFields(e) == ~e.has_error \/ ~e.has_error_code

\* C16: _is_retryable_error called on an error without the structured code
\* fields returns a verdict (it does not fail), and the verdict is True
\* exactly when the message, letter case ignored, holds a listed phrase;
\* nothing else about the error counts.
C16_NoCodeFallsToMessage ==
    (cls_result # <<>> /\ NoCodeFields(cls_error)) =>
        /\ Len(cls_result) = 1
        /\ cls_result[1] \in BOOLEAN
        /\ cls_result[1] <=>
              \E phrase \in ListedPhrases :
                  ContainsIgnoringCase(cls_error.message, phrase)

\* An error with neither attribute classified retryable by a message whose
\* letter case differs from the listed phrase.
C16_Witness ==
    /\ cls_result = <<TRUE>>
    /\ ~cls_error.has_error
    /\ ~cls_error.has_error_code
    /\ cls_error.message \notin ListedPhrases
    /\ ContainsIgnoringCase(cls_error.message,
          <<"s","e","r","v","i","c","e"," ","u","n","a","v","a","i","l","a","b","l","e">>)

\* The log entry of line 80.
IsExhaustionEvent(entry) ==
    entry.level = "error" /\ entry.text = "All attempts failed for"

\* C17: when the invocation at the last attempt index max_attempts - 1 (the
\* max_attempts-th invocation, all earlier ones having failed retryably)
\* fails with a fatal classified error, the call ends with the non-retryable
\* failure for that error and not with the exhausted one, and no exhaustion
\* event is in its log: the only entries are the retry warnings and the
\* non-retryable warning.
C17_ClassifiedBeforeBudget ==
    \A c \in Calls :
        LET inv == Invocations(c)
        IN  ( /\ max_attempts >= 1
              /\ Len(inv) = max_attempts
              /\ FailedFatal(inv[max_attempts]) ) =>
                /\ \A n \in 1..(max_attempts - 1) : FailedRetryable(inv[n])
                /\ Terminated(c)
                /\ RaisedNonRetryable(c)
                /\ ~RaisedExhausted(c)
                /\ outcome[c].exc.original_error = inv[max_attempts].error
                /\ SelectSeq(log[c], IsExhaustionEvent) = <<>>
                /\ \A n \in 1..Len(log[c]) : log[c][n].level = "warning"
                /\ Len(log[c]) = max_attempts

C17_Witness ==
    \E c \in Calls :
        /\ max_attempts = 3
        /\ Len(Invocations(c)) = 3
        /\ FailedRetryable(Invocations(c)[1])
        /\ FailedRetryable(Invocations(c)[2])
        /\ FailedFatal(Invocations(c)[3])
        /\ RaisedNonRetryable(c)

\* C18: the attempt carried by a non-retryable failure is the number of
\* invocations of func the call has made, which is the attempt index of the
\* failed invocation plus one, at whatever index the fatal error was raised
\* and whatever retryable errors came before it.
C18_AttemptCountsInvocations ==
    \A c \in Calls :
        RaisedNonRetryable(c) =>
            /\ outcome[c].exc.kwargs.attempt = Len(Invocations(c))
            /\ outcome[c].exc.kwargs.attempt = attempt[c] + 1
            /\ outcome[c].exc.kwargs.attempt \in 1..max_attempts
            /\ FailedFatal(Invocations(c)[outcome[c].exc.kwargs.attempt])

C18_Witness ==
    \E c \in Calls :
        /\ max_attempts = 3
        /\ RaisedNonRetryable(c)
        /\ attempt[c] = 1
        /\ FailedRetryable(Invocations(c)[1])
        /\ Len(Invocations(c)) = 2
        /\ outcome[c].exc.kwargs.attempt = 2

\* C19: every failure a call of wrapper raises comes after at least one
\* invocation of func and carries an original error that is not None; with
\* max_attempts < 1 no exhausted failure is raised with zero invocations and
\* no original error.
C19_FailureHasInvocation ==
    \A c \in Calls :
        outcome[c].kind = "raised" =>
            /\ Len(Invocations(c)) >= 1
            /\ RaisedAPIError(c) =>
                  /\ outcome[c].exc.original_error # None
                  /\ outcome[c].exc.cause # None

====
